---- MODULE Spec2Model ----
(***************************************************************************)
(* wiggle3ds: an MPO file is split into two JPEG byte ranges (parseMPO),   *)
(* both are decoded (loadImages), an interval timer alternates the two     *)
(* frames on a canvas (draw, updateAnimation) and the animation can be     *)
(* exported as a GIF or a WebM recording.                                  *)
(*                                                                         *)
(* The repository holds two copies of the page script: src/script.js and   *)
(* src/unnamed/part_000.  They differ in draw (draw target, Pad placement) *)
(* and in loadImages (reset of currentFrame).  The variable build says     *)
(* which copy the page runs; every action is translated for both.          *)
(***************************************************************************)
EXTENDS Integers, Sequences, FiniteSets, TLC

\* ------------------------------------------------------------------ bounds
MaxLen == 6        \* longest enumerated byte buffer handed to parseMPO
MaxLoads == 2      \* loads started in one behaviour

\* ------------------------------------------------------------ byte buffers
\* The bytes parseMPO tells apart: 0xFF, 0xDA, 0xD8 and any other byte (0x00).
ByteAlphabet == {0, 216, 218, 255}

\* the 100-byte buffer with FF DA at offset 10 and FF D8 at offset 60
ExampleBuffer ==
  [i \in 1..100 |-> IF i \in {11, 61} THEN 255
                    ELSE IF i = 12 THEN 218
                    ELSE IF i = 62 THEN 216 ELSE 0]

Buffers == UNION {[1..n -> ByteAlphabet] : n \in 0..MaxLen} \cup {ExampleBuffer}

\* view[i] of the Uint8Array, i counted from 0
At(view, i) == view[i + 1]

\* view.subarray(begin, end)
subarray(view, begin, end) == SubSeq(view, begin + 1, end)

\* A scan that stops one pair early: its loop runs while i < view.length - 2.
RECURSIVE ScanShort(_, _, _)
ScanShort(view, i, second) ==
  IF i < Len(view) - 2
    THEN IF At(view, i) = 255 /\ At(view, i + 1) = second
           THEN i
           ELSE ScanShort(view, i + 1, second)
    ELSE -1

\* for (let i = from; i < view.length - 1; i++)
\*   if (view[i] === 0xFF && view[i + 1] === second) { found = i; break; }
\* -1 when the loop ends without a match.
RECURSIVE Scan(_, _, _)
Scan(view, i, second) ==
  IF i < Len(view) - 1
    THEN IF At(view, i) = 255 /\ At(view, i + 1) = second
           THEN i
           ELSE Scan(view, i + 1, second)
    ELSE -1

\* the value parseMPO leaves behind: a thrown Error or the two blobs
Thrown(msg) ==
  [called |-> TRUE, ok |-> FALSE, error |-> msg, splitPoint |-> -1,
   img1 |-> <<>>, img2 |-> <<>>]

\* A split after the marker: the second part starts behind FF D8.
ReturnedAfterMarker(view, splitPoint) ==
  [called |-> TRUE, ok |-> TRUE, error |-> "", splitPoint |-> splitPoint,
   img1 |-> subarray(view, 0, splitPoint),
   img2 |-> subarray(view, splitPoint + 2, Len(view))]

\* return [img1Blob, img2Blob] of the two subarrays
Returned(view, splitPoint) ==
  [called |-> TRUE, ok |-> TRUE, error |-> "", splitPoint |-> splitPoint,
   img1 |-> subarray(view, 0, splitPoint),
   img2 |-> subarray(view, splitPoint, Len(view))]

NotCalled ==
  [called |-> FALSE, ok |-> FALSE, error |-> "", splitPoint |-> -1,
   img1 |-> <<>>, img2 |-> <<>>]

\* parseMPO whose second scan starts at the beginning of the buffer
parseMPOFromStart(view) ==
  LET firstSOS == Scan(view, 0, 218)
      splitPoint == Scan(view, 0, 216)
  IN  IF firstSOS = -1
        THEN Thrown("Could not find SOS marker in the first image.")
        ELSE IF splitPoint = -1
               THEN Thrown("Not a valid MPO file (could not find second image).")
               ELSE Returned(view, splitPoint)

parseMPO(view) ==
  LET firstSOS == Scan(view, 0, 218)
      splitPoint == IF firstSOS = -1 THEN -1 ELSE Scan(view, firstSOS, 216)
  IN  IF firstSOS = -1
        THEN Thrown("Could not find SOS marker in the first image.")
        ELSE IF splitPoint = -1
               THEN Thrown("Not a valid MPO file (could not find second image).")
               ELSE Returned(view, splitPoint)

\* ------------------------------------------------------------------ state
VARIABLES
  build,                 \* which copy of the script the page runs
  host,                  \* window.MediaRecorder, canvas.captureStream present?
  leftImage, rightImage, \* let leftImage, rightImage
  animationInterval,     \* let animationInterval: the handle of the last setInterval
  intervals,             \* the host's active interval timers
  settings,              \* let settings = { speed, offset, crop }
  currentFrame,          \* let currentFrame
  speedSlider, offsetSlider, cropCheckbox,   \* the controls' values
  canvas,                \* #display-canvas: size and what is painted on it
  hidden,                \* mainOutput carries the class 'hidden'
  alerts,                \* the last alert() of an export handler, "" before the
                         \* first (a failed load is seen in loads, not here)
  loads,                 \* the calls of loadImages, by start order
  exportGifBtn, exportWebmBtn,   \* the buttons' disabled attribute
  gif,                   \* the GIF encoder of the running GIF export
  recorder,              \* the MediaRecorder of the running WebM export
  stopTimeout,           \* the setTimeout(() => recorder.stop(), 5000) is pending
  downloads,             \* the file names the last export handed to triggerDownload
  uncaught,              \* the error that ended the last export handler, "" if none
  ticks,                 \* parity of the timer ticks since updateAnimation last ran
                         \* with currentFrame = 0 and no export since; -1 otherwise
  view, parsed           \* a buffer handed to parseMPO on its own, and the result

envVars == <<build, host, view, parsed>>
imageVars == <<leftImage, rightImage, hidden>>
timerVars == <<animationInterval, intervals, ticks>>
controlVars == <<speedSlider, offsetSlider, cropCheckbox>>
buttonVars == <<exportGifBtn, exportWebmBtn>>
jobVars == <<gif, recorder, stopTimeout, downloads, uncaught>>

vars ==
  <<envVars, imageVars, timerVars, controlVars, buttonVars, jobVars, settings,
    currentFrame, canvas, alerts, loads>>

Builds == {"script.js", "part_000"}

\* a browser with both capture interfaces, without canvas.captureStream, with neither
Hosts ==
  {[MediaRecorder |-> TRUE, captureStream |-> TRUE],
   [MediaRecorder |-> TRUE, captureStream |-> FALSE],
   [MediaRecorder |-> FALSE, captureStream |-> FALSE]}

\* ------------------------------------------------------------------ values
\* A control's value is a string of decimal digits, written as the sequence of
\* its digits: "64" is <<6, 4>>.  settings starts with numbers and holds the
\* sliders' strings after the first handleControlsChange.
Num(digits) == [type |-> "number", digits |-> digits]
Str(digits) == [type |-> "string", digits |-> digits]

RECURSIVE DigitsValue(_)
DigitsValue(d) ==
  IF d = <<>> THEN 0 ELSE 10 * DigitsValue(SubSeq(d, 1, Len(d) - 1)) + d[Len(d)]

\* parseInt(x, 10): x is converted to a string, its leading digits are read
parseInt(x) == DigitsValue(x.digits)

\* the numeric conversion of x in settings.speed * 2
ToNumber(x) == DigitsValue(x.digits)

SpeedChoices == {<<8>>, <<4>>}
OffsetChoices == {<<6, 4>>, <<0>>}

\* the files a user can pick, by their bytes
Files == {"stereo.mpo", "nosoi.mpo", "nosos.mpo"}

FileBytes(f) ==
  CASE f = "stereo.mpo" -> <<255, 216, 255, 218, 0, 255, 216, 255, 218, 0>>
    [] f = "nosoi.mpo" -> <<255, 216, 255, 218, 0, 0>>
    [] OTHER -> <<255, 216, 0, 0>>

\* the natural sizes the decoder reports
ImageSizes == {[width |-> 640, height |-> 480], [width |-> 100, height |-> 80]}

\* the demo thumbnails' data-speed and data-offset
Demos == {"demo1"}
DemoSpeed(d) == <<4>>
DemoOffset(d) == <<6, 4>>

\* a decoded Image, named by the load that decoded it and its side
Undefined == [load |-> 0, side |-> "-", width |-> 0, height |-> 0]
Image(l, side, size) ==
  [load |-> l, side |-> side, width |-> size.width, height |-> size.height]

\* a canvas: its size and the one drawImage its pixels come from
Blank ==
  [img |-> Undefined, frame |-> -1, sx |-> 0, dx |-> 0, crop |-> FALSE,
   offset |-> 0, fill |-> "transparent"]

\* a canvas as created: 300 x 150 and transparent
DefaultCanvas == [width |-> 300, height |-> 150, content |-> Blank]

\* a call of loadImages: where it stands, and which decodes have ended
NoLoad == [pc |-> "unused", L |-> "-", R |-> "-"]
Returns(pc) == [pc |-> pc, L |-> "-", R |-> "-"]

NoGif == [state |-> "none", frames |-> <<>>, width |-> 0, height |-> 0]
NoRecorder == [state |-> "none", chunks |-> 0, rate |-> 0]

\* A delay that is 62.5 ms whatever the speed.
FrameDelayFixed(speed) == [num |-> 1000, den |-> 16]

\* 1000 / (settings.speed * 2), kept as a fraction of integers
FrameDelay(speed) == [num |-> 1000, den |-> ToNumber(speed) * 2]

\* ------------------------------------------------------------------- draw
\* A draw that gives the canvas the Crop width in both modes.
CanvasWidthCropOnly(crop, w, offset) == w - offset

\* targetCanvas.width = w - offset (Crop), w + offset (Pad)
CanvasWidth(crop, w, offset) == IF crop THEN w - offset ELSE w + offset

\* const sx = (currentFrame === 0) ? 0 : offset
CropSx(frame, offset) == IF frame = 0 THEN 0 ELSE offset

\* const dx = ...: script.js shifts the left image, part_000 the right one
PadDx(frame, offset) ==
  IF build = "script.js"
    THEN (IF frame = 0 THEN offset ELSE 0)
    ELSE (IF frame = 0 THEN 0 ELSE offset)

\* draw() past its first line: the target is resized, which clears it, and
\* one drawImage paints the image of the frame.
compose(target, L, R, st, frame) ==
  LET imgToDraw == IF frame = 0 THEN L ELSE R
      w == L.width
      h == L.height
      offset == parseInt(st.offset)
  IN  IF st.crop
        THEN [width |-> CanvasWidth(TRUE, w, offset), height |-> h,
              content |-> [img |-> imgToDraw, frame |-> frame,
                           sx |-> CropSx(frame, offset), dx |-> 0,
                           crop |-> TRUE, offset |-> offset,
                           fill |-> "transparent"]]
        ELSE [width |-> CanvasWidth(FALSE, w, offset), height |-> h,
              content |-> [img |-> imgToDraw, frame |-> frame,
                           sx |-> 0, dx |-> PadDx(frame, offset),
                           crop |-> FALSE, offset |-> offset,
                           fill |-> "white"]]

\* A draw without its first line: it composes whatever the variables hold.
drawUnguarded(target, L, R, st, frame) == compose(target, L, R, st, frame)

\* draw() on the canvas target, with the images, settings and frame it reads:
\* if (!leftImage || !rightImage) return, else the frame is composed.
draw(target, L, R, st, frame) ==
  IF L = Undefined \/ R = Undefined
    THEN target
    ELSE compose(target, L, R, st, frame)

\* A tick that leaves the frame as it is.
ToggleStuck(frame) == frame

\* currentFrame = 1 - currentFrame
Toggle(frame) == 1 - frame

\* the handle setInterval returns: one no active timer has
FreshId(active) ==
  CHOOSE i \in 1..(Cardinality(active) + 1) : \A t \in active : t.id # i

\* A clearInterval that cancels nothing.
clearIntervalNothing(handle) == intervals

\* clearInterval(handle)
clearInterval(handle) == {t \in intervals : t.id # handle}

\* updateAnimation(), run when the images, settings and frame are L, R, st, frame
updateAnimation(L, R, st, frame) ==
  /\ canvas' = draw(canvas, L, R, st, frame)
  /\ LET rest == clearInterval(animationInterval)
         id == FreshId(rest)
     IN  /\ intervals' = rest \cup {[id |-> id, delay |-> FrameDelay(st.speed)]}
         /\ animationInterval' = id
  /\ ticks' = IF frame = 0 THEN 0 ELSE -1

\* the callback of setInterval
Tick ==
  /\ intervals # {}
  /\ currentFrame' = Toggle(currentFrame)
  /\ canvas' = draw(canvas, leftImage, rightImage, settings, currentFrame')
  /\ ticks' = IF ticks = -1 THEN -1 ELSE (ticks + 1) % 2
  /\ UNCHANGED <<envVars, imageVars, animationInterval, intervals, controlVars,
                 buttonVars, jobVars, settings, alerts, loads>>

\* ---------------------------------------------------------------- controls
\* handleControlsChange(), run when the controls hold sp, off, cr
handleControlsChange(sp, off, cr) ==
  /\ settings' = [speed |-> Str(sp), offset |-> Str(off), crop |-> cr]
  /\ updateAnimation(leftImage, rightImage, settings', currentFrame)

\* an 'input' event of one of the three controls
Input ==
  /\ \/ \E v \in SpeedChoices \ {speedSlider} :
          speedSlider' = v /\ UNCHANGED <<offsetSlider, cropCheckbox>>
     \/ \E v \in OffsetChoices \ {offsetSlider} :
          offsetSlider' = v /\ UNCHANGED <<speedSlider, cropCheckbox>>
     \/ cropCheckbox' = ~cropCheckbox /\ UNCHANGED <<speedSlider, offsetSlider>>
  /\ handleControlsChange(speedSlider', offsetSlider', cropCheckbox')
  /\ UNCHANGED <<envVars, imageVars, buttonVars, jobVars, currentFrame, alerts,
                 loads>>

\* ------------------------------------------------------------------- loads
\* the next call of loadImages gets the first unused number
NextLoad == CHOOSE l \in 1..MaxLoads :
              loads[l].pc = "unused" /\ \A k \in 1..(l - 1) : loads[k].pc # "unused"

CanStartLoad == \E l \in 1..MaxLoads : loads[l].pc = "unused"

\* loadImages(file) up to await file.arrayBuffer()
loadImages == loads' = [loads EXCEPT ![NextLoad] = Returns("reading")]

\* An assignment of each image as soon as its own decode has ended.
AssignedEarly(cur, l, side, size, decoded, joined) ==
  IF joined \/ decoded = side THEN Image(l, side, size) ELSE cur

\* [leftImage, rightImage] = await Promise.all([...]): the variable of `side`
\* after the decode of side `decoded` of load l has ended; joined says that
\* both decodes have ended well.
Assigned(cur, l, side, size, decoded, joined) ==
  IF joined THEN Image(l, side, size) ELSE cur

\* the catch block of loadImages.  Its alert(`Error: ${message}`) and its
\* status text change no variable of this model: the load is marked failed.
LoadFailed(l, message) ==
  /\ loads' = [loads EXCEPT ![l] = Returns("failed")]
  /\ UNCHANGED <<envVars, imageVars, timerVars, controlVars, buttonVars, jobVars,
                 settings, currentFrame, canvas, alerts>>

\* fileInput 'change' with a file
FileChange ==
  /\ CanStartLoad
  /\ loadImages
  /\ UNCHANGED <<envVars, imageVars, timerVars, controlVars, buttonVars, jobVars,
                 settings, currentFrame, canvas, alerts>>

\* A click on a demo thumbnail whose blob has arrived: the controls are set,
\* handleControlsChange() runs, and loadImages(blob) runs up to its first
\* await.  Until then the click changes only the status text, and a fetch
\* that fails ends in the handler's catch block (alert, status text): neither
\* touches a variable of this model.
DemoFetched ==
  /\ CanStartLoad
  /\ \E d \in Demos :
       /\ speedSlider' = DemoSpeed(d)
       /\ offsetSlider' = DemoOffset(d)
  /\ cropCheckbox' = TRUE
  /\ handleControlsChange(speedSlider', offsetSlider', cropCheckbox')
  /\ loadImages
  /\ UNCHANGED <<envVars, imageVars, buttonVars, jobVars, currentFrame, alerts>>

\* file.arrayBuffer() rejects
ReadFail(l) ==
  /\ loads[l].pc = "reading"
  /\ LoadFailed(l, "The file could not be read.")

\* file.arrayBuffer() resolves with the bytes of the file that was picked:
\* parseMPO, then both decodes are started
ReadDone(l) ==
  /\ loads[l].pc = "reading"
  /\ \E f \in Files :
       LET r == parseMPO(FileBytes(f))
       IN  IF r.ok
             THEN /\ loads' = [loads EXCEPT ![l] =
                                 [pc |-> "decoding", L |-> "pending", R |-> "pending"]]
                  /\ UNCHANGED <<envVars, imageVars, timerVars, controlVars,
                                 buttonVars, jobVars, settings, currentFrame,
                                 canvas, alerts>>
             ELSE LoadFailed(l, r.error)

\* img.onerror of one image: Promise.all rejects, the catch block runs.  The
\* events of the other image come after the promise is settled and change nothing.
DecodeError(l, side) ==
  /\ loads[l].pc = "decoding"
  /\ loads[l][side] = "pending"
  /\ LoadFailed(l, "undefined")

\* currentFrame = 0, which only script.js has
ResetFrame(frame) == IF build = "script.js" THEN 0 ELSE frame

\* img.onload of one image; with the second one Promise.all resolves and the
\* rest of loadImages runs in the same task.  size is the natural size of the
\* file's images.
DecodeLoaded(l, side) ==
  /\ loads[l].pc = "decoding"
  /\ loads[l][side] = "pending"
  /\ \E size \in ImageSizes :
       LET joined == \A s \in {"L", "R"} \ {side} : loads[l][s] = "loaded"
       IN  /\ leftImage' = Assigned(leftImage, l, "L", size, side, joined)
           /\ rightImage' = Assigned(rightImage, l, "R", size, side, joined)
           /\ IF joined
                THEN /\ loads' = [loads EXCEPT ![l] = Returns("done")]
                     /\ hidden' = FALSE
                     /\ currentFrame' = ResetFrame(currentFrame)
                     /\ updateAnimation(leftImage', rightImage', settings,
                                        currentFrame')
                ELSE /\ loads' = [loads EXCEPT ![l][side] = "loaded"]
                     /\ UNCHANGED <<hidden, currentFrame, canvas, timerVars>>
  /\ UNCHANGED <<envVars, controlVars, buttonVars, jobVars, settings, alerts>>

\* ----------------------------------------------------------------- exports
\* A setExportingState that disables only the GIF button.
setExportingStateGifOnly(isExporting, message) ==
  /\ exportGifBtn' = isExporting
  /\ exportWebmBtn' = exportWebmBtn

\* setExportingState(isExporting, message); the status text is not modelled
setExportingState(isExporting, message) ==
  /\ exportGifBtn' = isExporting
  /\ exportWebmBtn' = isExporting

\* A download that is triggered twice.
triggerDownloadTwice(filename) == downloads' = downloads \o <<filename, filename>>

\* triggerDownload(blob, filename)
triggerDownload(filename) == downloads' = Append(downloads, filename)

\* the canvas that draw.call({ canvas: offscreenCanvas, ... }) paints:
\* script.js takes this.canvas, part_000 always takes the page's canvas
DrawsOffscreen == build = "script.js"

\* gif.addFrame(offscreenCtx, { copy: true, delay: frameDelay })
GifFrame(offscreen, delay) == [surface |-> offscreen, delay |-> delay]

\* click on exportGifBtn; a disabled button gets no click.  The GIF
\* constructor either returns or throws (the library is not loaded).
ExportGifClick ==
  /\ ~exportGifBtn
  /\ IF leftImage = Undefined
       THEN UNCHANGED vars
       ELSE /\ setExportingState(TRUE, "Generating GIF...")
            /\ downloads' = <<>>
            /\ \/ /\ uncaught' = "GIF is not defined"
                  /\ UNCHANGED <<gif, currentFrame, canvas, ticks>>
               \/ LET frameDelay == FrameDelay(settings.speed)
                      off1 == IF DrawsOffscreen
                                THEN draw(DefaultCanvas, leftImage, rightImage, settings, 0)
                                ELSE DefaultCanvas
                      live1 == IF DrawsOffscreen
                                 THEN canvas
                                 ELSE draw(canvas, leftImage, rightImage, settings, 0)
                      off2 == IF DrawsOffscreen
                                THEN draw(off1, leftImage, rightImage, settings, 1)
                                ELSE off1
                      live2 == IF DrawsOffscreen
                                 THEN live1
                                 ELSE draw(live1, leftImage, rightImage, settings, 1)
                  IN  /\ gif' = [state |-> "running",
                                 frames |-> <<GifFrame(off1, frameDelay),
                                              GifFrame(off2, frameDelay)>>,
                                 width |-> canvas.width, height |-> canvas.height]
                      /\ currentFrame' = 1
                      /\ canvas' = live2
                      /\ ticks' = -1
                      /\ uncaught' = ""
            /\ UNCHANGED <<envVars, imageVars, animationInterval, intervals,
                           controlVars, settings, alerts, loads, recorder,
                           stopTimeout>>

\* gif.on('finished', ...)
GifFinished ==
  /\ gif.state = "running"
  /\ gif' = NoGif
  /\ triggerDownload("wigglegram.gif")
  /\ setExportingState(FALSE, "GIF exported!")
  /\ UNCHANGED <<envVars, imageVars, timerVars, controlVars, settings,
                 currentFrame, canvas, alerts, loads, recorder, stopTimeout,
                 uncaught>>

\* A capability check that looks at window.MediaRecorder alone.
CaptureSupportedRecorderOnly == host.MediaRecorder

\* the negation of (!window.MediaRecorder || !canvas.captureStream)
CaptureSupported == host.MediaRecorder /\ host.captureStream

\* click on exportWebmBtn.  canvas.captureStream is not a function on a host
\* without it; the MediaRecorder constructor returns or throws (no video/webm).
ExportWebmClick ==
  /\ ~exportWebmBtn
  /\ IF leftImage = Undefined
       THEN UNCHANGED vars
       ELSE IF ~CaptureSupported
         THEN /\ alerts' = "Video export is not supported in your browser."
              /\ UNCHANGED <<envVars, imageVars, timerVars, controlVars,
                             buttonVars, jobVars, settings, currentFrame, canvas,
                             loads>>
         ELSE /\ setExportingState(TRUE, "Recording video...")
              /\ downloads' = <<>>
              /\ IF ~host.captureStream
                   THEN /\ uncaught' = "canvas.captureStream is not a function"
                        /\ UNCHANGED <<recorder, stopTimeout>>
                   ELSE \/ /\ uncaught' = "MediaRecorder: NotSupportedError"
                           /\ UNCHANGED <<recorder, stopTimeout>>
                        \/ /\ recorder' = [state |-> "recording", chunks |-> 0,
                                           rate |-> ToNumber(settings.speed) * 2]
                           /\ stopTimeout' = TRUE
                           /\ uncaught' = ""
              /\ UNCHANGED <<envVars, imageVars, timerVars, controlVars, settings,
                             currentFrame, canvas, alerts, loads, gif>>

\* setTimeout(() => recorder.stop(), 5000)
StopTimeout ==
  /\ stopTimeout
  /\ stopTimeout' = FALSE
  /\ recorder' = [recorder EXCEPT !.state = "inactive"]
  /\ UNCHANGED <<envVars, imageVars, timerVars, controlVars, buttonVars, settings,
                 currentFrame, canvas, alerts, loads, gif, downloads, uncaught>>

\* after stop(): one dataavailable (chunks.push), then recorder.onstop
RecorderStopped ==
  /\ recorder.state = "inactive"
  /\ recorder' = NoRecorder
  /\ triggerDownload("wigglegram.webm")
  /\ setExportingState(FALSE, "WebM exported!")
  /\ UNCHANGED <<envVars, imageVars, timerVars, controlVars, settings,
                 currentFrame, canvas, alerts, loads, gif, stopTimeout, uncaught>>

\* ------------------------------------------------------------ specification
\* The state when DOMContentLoaded has run.  The page's markup is not part of
\* the sources: the controls are taken to start at the values of settings.
InitApp ==
  /\ build \in Builds
  /\ host \in Hosts
  /\ leftImage = Undefined
  /\ rightImage = Undefined
  /\ animationInterval = 0
  /\ intervals = {}
  /\ settings = [speed |-> Num(<<8>>), offset |-> Num(<<6, 4>>), crop |-> TRUE]
  /\ currentFrame = 0
  /\ speedSlider = <<8>>
  /\ offsetSlider = <<6, 4>>
  /\ cropCheckbox = TRUE
  /\ canvas = DefaultCanvas
  /\ hidden = TRUE
  /\ alerts = ""
  /\ loads = [l \in 1..MaxLoads |-> NoLoad]
  /\ exportGifBtn = FALSE
  /\ exportWebmBtn = FALSE
  /\ gif = NoGif
  /\ recorder = NoRecorder
  /\ stopTimeout = FALSE
  /\ downloads = <<>>
  /\ uncaught = ""
  /\ ticks = -1

Init ==
  /\ InitApp
  /\ view = <<>>
  /\ parsed = NotCalled

Next ==
  \/ Tick
  \/ Input
  \/ FileChange
  \/ DemoFetched
  \/ \E l \in 1..MaxLoads : ReadFail(l)
  \/ \E l \in 1..MaxLoads : ReadDone(l)
  \/ \E l \in 1..MaxLoads, side \in {"L", "R"} : DecodeError(l, side)
  \/ \E l \in 1..MaxLoads, side \in {"L", "R"} : DecodeLoaded(l, side)
  \/ ExportGifClick
  \/ GifFinished
  \/ ExportWebmClick
  \/ StopTimeout
  \/ RecorderStopped

Spec == Init /\ [][Next]_vars

\* The page with its controls left alone, and the host delivering what the
\* export handlers wait for: the encoder's 'finished' event, the 5-second
\* timeout, and the recorder's 'stop' event.
ExportNext ==
  \/ Tick
  \/ FileChange
  \/ \E l \in 1..MaxLoads : ReadFail(l)
  \/ \E l \in 1..MaxLoads : ReadDone(l)
  \/ \E l \in 1..MaxLoads, side \in {"L", "R"} : DecodeError(l, side)
  \/ \E l \in 1..MaxLoads, side \in {"L", "R"} : DecodeLoaded(l, side)
  \/ ExportGifClick
  \/ GifFinished
  \/ ExportWebmClick
  \/ StopTimeout
  \/ RecorderStopped

ExportFairness ==
  /\ WF_vars(GifFinished)
  /\ WF_vars(StopTimeout)
  /\ WF_vars(RecorderStopped)

ExportSpec == Init /\ [][ExportNext]_vars /\ ExportFairness

\* parseMPO on its own: every buffer up to MaxLen bytes, and the 100-byte one
ParseInit ==
  /\ InitApp
  /\ build = "script.js"
  /\ host = [MediaRecorder |-> TRUE, captureStream |-> TRUE]
  /\ view \in Buffers
  /\ parsed = NotCalled

ParseCall ==
  /\ ~parsed.called
  /\ parsed' = parseMPO(view)
  /\ UNCHANGED <<build, host, view, imageVars, timerVars, controlVars, buttonVars,
                 jobVars, settings, currentFrame, canvas, alerts, loads>>

ParseNext == ParseCall

ParseSpec == ParseInit /\ [][ParseNext]_vars

\* ------------------------------------------------------------------ claims
\* the indices i of buf, counted from 0, where the pair FF `second` stands
PairsAt(buf, second) ==
  {i \in 0..(Len(buf) - 2) : buf[i + 1] = 255 /\ buf[i + 2] = second}

SetMin(S) == CHOOSE x \in S : \A y \in S : x <= y

\* the split point the markers of buf ask for, -1 when there is none
ExpectedSplit(buf) ==
  IF PairsAt(buf, 218) = {}
    THEN -1
    ELSE LET after == {p \in PairsAt(buf, 216) : p >= SetMin(PairsAt(buf, 218))}
         IN  IF after = {} THEN -1 ELSE SetMin(after)

\* C1: when the buffer holds FF DA and, at or after the first FF DA, FF D8,
\* parseMPO splits at the smallest such index p of FF D8: the first image is
\* bytes [0, p), the second is bytes [p, length), their lengths add up to the
\* buffer's length; for the 100-byte example p is 60.
C1_SplitAtFirstSoiAfterSos ==
  (parsed.called /\ ExpectedSplit(view) # -1) =>
    LET p == ExpectedSplit(view)
    IN  /\ parsed.ok
        /\ parsed.splitPoint = p
        /\ parsed.img1 = [i \in 1..p |-> view[i]]
        /\ parsed.img2 = [i \in 1..(Len(view) - p) |-> view[p + i]]
        /\ Len(parsed.img1) + Len(parsed.img2) = Len(view)
        /\ (view = ExampleBuffer => p = 60 /\ Len(parsed.img2) = 40)

\* a split of a buffer that holds an FF D8 before its first FF DA
C1_Witness ==
  /\ parsed.called
  /\ parsed.ok
  /\ \E i \in PairsAt(view, 216) : i < SetMin(PairsAt(view, 218))
  /\ parsed.splitPoint > SetMin(PairsAt(view, 218))

\* C2: parseMPO throws exactly when the buffer holds no FF DA, or holds no
\* FF D8 at or after its first FF DA; in every other case it returns, also
\* when the marker pair is the buffer's last two bytes.
C2_ThrowsIffMarkerMissing ==
  parsed.called =>
    /\ parsed.ok <=> ExpectedSplit(view) # -1
    /\ (PairsAt(view, 218) = {}) =>
         parsed.error = "Could not find SOS marker in the first image."
    /\ (PairsAt(view, 218) # {} /\ ~parsed.ok) =>
         parsed.error = "Not a valid MPO file (could not find second image)."

\* a split at an FF D8 that is the buffer's last two bytes
C2_Witness ==
  /\ parsed.called
  /\ parsed.ok
  /\ parsed.splitPoint = Len(view) - 2

\* every canvas that holds a composited frame: the page's canvas and the
\* offscreen copies handed to the GIF encoder
Painted ==
  {c \in {canvas} \cup {gif.frames[i].surface : i \in 1..Len(gif.frames)} :
     c.content.img # Undefined}

\* C3: in Pad mode draw places the image at x = offset when the frame is Left
\* (0) and at x = 0 when it is Right (1).
C3_PadPlacement ==
  \A c \in Painted :
    ~c.content.crop =>
      c.content.dx = (IF c.content.frame = 0 THEN c.content.offset ELSE 0)

\* C4: after draw the canvas is (w - offset) x h in Crop mode and
\* (w + offset) x h in Pad mode, for the Left and the Right frame alike; the
\* page's canvas has the size the current settings and image ask for.
C4_SurfaceSize ==
  /\ \A c \in Painted :
       /\ c.width = (IF c.content.crop
                       THEN c.content.img.width - c.content.offset
                       ELSE c.content.img.width + c.content.offset)
       /\ c.height = c.content.img.height
  /\ canvas \in Painted =>
       /\ canvas.content.crop = settings.crop
       /\ canvas.content.offset = DigitsValue(settings.offset.digits)
       /\ canvas.content.img.width = leftImage.width
       /\ canvas.height = leftImage.height

\* the Right frame of 640-pixel images, padded by 64: 704 pixels wide
C4_Witness ==
  /\ canvas \in Painted
  /\ canvas.content.frame = 1
  /\ ~settings.crop
  /\ leftImage.width = 640
  /\ canvas.content.offset = 64
  /\ canvas.width = 704

\* C5: N timer ticks after a start of the animation at the Left frame, with no
\* load, settings change or export since, the active frame is Left for even N
\* and Right for odd N, and it is the frame the canvas shows.
C5_FrameIsTickParity ==
  ticks # -1 =>
    /\ currentFrame = ticks
    /\ leftImage # Undefined =>
         /\ canvas.content.frame = currentFrame
         /\ canvas.content.img = (IF ticks = 0 THEN leftImage ELSE rightImage)

\* an odd number of ticks after a start at Left: Right is shown
C5_Witness ==
  /\ ticks = 1
  /\ currentFrame = 1
  /\ canvas.content.img = rightImage
  /\ rightImage # Undefined

\* C6: when a load completes, currentFrame is 0 and the canvas shows the new
\* left image.
C6_LoadShowsLeft ==
  [][\A l \in 1..MaxLoads :
       (loads[l].pc = "decoding" /\ loads'[l].pc = "done") =>
         /\ currentFrame' = 0
         /\ canvas'.content.frame = 0
         /\ canvas'.content.img = leftImage'
         /\ leftImage'.load = l]_vars

GifRunning == gif.state = "running"
RecorderRunning == recorder.state \in {"recording", "inactive"}

\* C7: at most one export job runs at a time, and while one runs both export
\* buttons are disabled.
C7_OneExportAtATime ==
  /\ ~(GifRunning /\ RecorderRunning)
  /\ (GifRunning \/ RecorderRunning) => (exportGifBtn /\ exportWebmBtn)
  /\ stopTimeout => recorder.state = "recording"

\* a GIF export runs on a host that can record: the WebM button is disabled too
C7_Witness ==
  /\ GifRunning
  /\ host.MediaRecorder /\ host.captureStream
  /\ exportGifBtn /\ exportWebmBtn

\* C8: after an export whose encoder could not be constructed, both buttons
\* are enabled again and nothing was downloaded.
C8_FailedExportReenables ==
  uncaught # "" => (~exportGifBtn /\ ~exportWebmBtn /\ downloads = <<>>)

\* both variables hold images of one and the same load, or none
PairWhole ==
  /\ leftImage.load = rightImage.load
  /\ leftImage = Undefined <=> rightImage = Undefined
  /\ leftImage # Undefined => (leftImage.side = "L" /\ rightImage.side = "R")

\* C9: a load that fails leaves leftImage, rightImage, currentFrame, the timer
\* and the view as they were; the two images are always of one load; the view
\* is hidden as long as no load has succeeded.
C9_FailedLoadKeepsState ==
  /\ [](PairWhole /\ ((\A l \in 1..MaxLoads : loads[l].pc # "done") =>
                        (hidden /\ leftImage = Undefined)))
  /\ [][(\E l \in 1..MaxLoads : loads[l].pc # "failed" /\ loads'[l].pc = "failed")
          => UNCHANGED <<leftImage, rightImage, currentFrame, animationInterval,
                         intervals, hidden, canvas>>]_vars

\* the second load has failed and the pair of the first is still in place
C9_Witness ==
  /\ loads[2].pc = "failed"
  /\ loads[1].pc = "done"
  /\ leftImage.load = 1
  /\ rightImage.load = 1
  /\ ~hidden

\* C10: on a host without MediaRecorder or without canvas.captureStream a WebM
\* export never starts: no recorder, no stop timer, no error of the WebM
\* handler, and the buttons are disabled by a GIF export alone.
C10_UnsupportedHostNeverRecords ==
  ~(host.MediaRecorder /\ host.captureStream) =>
    /\ recorder = NoRecorder
    /\ ~stopTimeout
    /\ uncaught \in {"", "GIF is not defined"}
    /\ (exportGifBtn \/ exportWebmBtn) =>
         (GifRunning \/ uncaught = "GIF is not defined")

\* a WebM export was asked for and refused, the buttons are still enabled
C10_Witness ==
  /\ alerts = "Video export is not supported in your browser."
  /\ ~exportGifBtn /\ ~exportWebmBtn
  /\ recorder = NoRecorder

\* C11: while an image is absent, every draw (of a tick, a settings change, a
\* restart) leaves the canvas as it was created, unsized and unpainted, and no
\* handler has ended in an error.
C11_DrawWithoutPairIsNoOp ==
  /\ [](((leftImage = Undefined \/ rightImage = Undefined) =>
          (canvas = DefaultCanvas /\ uncaught = "")))
  /\ [][(leftImage' = Undefined \/ rightImage' = Undefined) =>
          canvas' = canvas]_vars

\* a tick has fired and the settings were changed while no pair is loaded
C11_Witness ==
  /\ leftImage = Undefined
  /\ currentFrame = 1
  /\ intervals # {}
  /\ settings.speed = Str(<<4>>)
  /\ canvas = DefaultCanvas

\* the step of the GIF click handler in which the encoder is constructed
GifStarts == gif.state # "running" /\ gif'.state = "running"

\* C12: a GIF export hands the encoder exactly two frames, the composite of
\* the Left image and then that of the Right image, both composed with the
\* settings of that moment, each with delay 1000 / (2 x speed), whatever the
\* active frame was.
C12_GifFramesLeftThenRight ==
  [][GifStarts =>
       /\ Len(gif'.frames) = 2
       /\ \A i \in 1..2 :
            LET f == gif'.frames[i]
            IN  /\ f.surface.content.img = (IF i = 1 THEN leftImage ELSE rightImage)
                /\ f.surface.content.frame = i - 1
                /\ f.surface.content.crop = settings.crop
                /\ f.surface.content.offset = DigitsValue(settings.offset.digits)
                /\ f.delay.num = 1000
                /\ f.delay.den = 2 * DigitsValue(settings.speed.digits)]_vars

\* a step that ran updateAnimation: a settings change, or a load that completes
Restarts ==
  \/ settings' # settings
  \/ \E l \in 1..MaxLoads : loads[l].pc = "decoding" /\ loads'[l].pc = "done"

\* a step of the timer's callback: the frame flips, nothing else moves
TickStep ==
  /\ currentFrame' # currentFrame
  /\ loads' = loads
  /\ exportGifBtn' = exportGifBtn

\* C13: at most one repeating timer is active, and it is the one whose handle
\* animationInterval holds; every start leaves exactly one timer, composites
\* the frame that is current without toggling it; a tick fires only for the
\* timer that is active.
C13_OneTimer ==
  /\ [](Cardinality(intervals) <= 1 /\ \A t \in intervals : t.id = animationInterval)
  /\ [][Restarts =>
          /\ Cardinality(intervals') = 1
          /\ settings' # settings => currentFrame' = currentFrame
          /\ leftImage' # Undefined =>
               /\ canvas'.content.frame = currentFrame'
               /\ canvas'.content.img =
                    (IF currentFrame' = 0 THEN leftImage' ELSE rightImage')]_vars
  /\ [][TickStep => \E t \in intervals : t.id = animationInterval]_vars

\* the timer was restarted by a settings change while the Right frame showed
C13_Witness ==
  /\ Cardinality(intervals) = 1
  /\ leftImage # Undefined
  /\ settings.speed = Str(<<4>>)
  /\ settings.crop = FALSE
  /\ currentFrame = 1
  /\ canvas.content.frame = 1
  /\ canvas.content.crop = FALSE

\* a call of loadImages has started and neither completed nor failed
InFlight(ls) == \E l \in 1..MaxLoads : ls[l].pc \in {"reading", "decoding"}

\* C14: while a pair is animated and a new load is on its way, no tick fires.
C14_NoTickDuringLoad ==
  [][(leftImage # Undefined /\ InFlight(loads)) => ~TickStep]_vars

\* C15: a running timer's period is 1000 / (2 x settings.speed) for the speed
\* settings holds now: 62.5 ms for speed 8, 125 ms for speed 4.
C15_PeriodFollowsSpeed ==
  \A t \in intervals :
    /\ t.delay.num = 1000
    /\ t.delay.den = 2 * DigitsValue(settings.speed.digits)
    /\ settings.speed.digits = <<8>> => 2 * t.delay.num = 125 * t.delay.den
    /\ settings.speed.digits = <<4>> => t.delay.num = 125 * t.delay.den

\* the speed was changed from 8 to 4 while a pair is animated: 125 ms
C15_Witness ==
  /\ leftImage # Undefined
  /\ settings.speed = Str(<<4>>)
  /\ \E t \in intervals : t.delay = [num |-> 1000, den |-> 8]

\* a step of an export click handler that went past its early returns
ExportHandlerRuns ==
  \/ ~exportGifBtn /\ exportGifBtn'
  \/ ~exportWebmBtn /\ exportWebmBtn'

\* C16: an export handler, ending well or in an error, leaves currentFrame as
\* it was.
C16_ExportKeepsFrame ==
  [][ExportHandlerRuns => currentFrame' = currentFrame]_vars

\* C17: the GIF click handler leaves the page's canvas as it was, and the
\* surfaces it hands to the encoder hold a composited frame, Left then Right.
C17_GifPaintsOffscreenOnly ==
  [][GifStarts =>
       /\ canvas' = canvas
       /\ \A i \in 1..Len(gif'.frames) :
            /\ gif'.frames[i].surface.content.img # Undefined
            /\ gif'.frames[i].surface.content.frame = i - 1]_vars

\* the loads that have returned well
Done == {l \in 1..MaxLoads : loads[l].pc = "done"}

SetMax(S) == CHOOSE x \in S : \A y \in S : x >= y

\* C19: when no load is on its way and one has completed, the pair is that of
\* the completed load that was started last.
C19_LastStartedWins ==
  (~InFlight(loads) /\ Done # {}) =>
    (leftImage.load = SetMax(Done) /\ rightImage.load = SetMax(Done))

\* C20: when parseMPO returns, the split point p lies after the first FF DA
\* and at most at length - 2; both parts hold at least 2 bytes, they are the
\* bytes before p and the bytes from p on, and the second starts with FF D8.
C20_BothPartsNonEmpty ==
  (parsed.called /\ parsed.ok) =>
    LET p == parsed.splitPoint
    IN  /\ SetMin(PairsAt(view, 218)) < p
        /\ p <= Len(view) - 2
        /\ Len(parsed.img1) = p
        /\ Len(parsed.img1) >= 2
        /\ Len(parsed.img2) = Len(view) - p
        /\ Len(parsed.img2) >= 2
        /\ parsed.img2[1] = 255 /\ parsed.img2[2] = 216

\* the shortest buffer that splits: FF DA FF D8, both parts of 2 bytes
C20_Witness ==
  /\ parsed.called
  /\ parsed.ok
  /\ Len(view) = 4
  /\ Len(parsed.img1) = 2
  /\ Len(parsed.img2) = 2

\* C18: a GIF export whose encoder renders, and a WebM export whose recorder
\* records, end: the recorder is stopped by the timeout once, one file is
\* downloaded once, and both buttons are enabled again; nothing is downloaded
\* while the job runs.
C18_ExportEnds ==
  /\ GifRunning ~>
       (gif = NoGif /\ ~exportGifBtn /\ ~exportWebmBtn
          /\ downloads = <<"wigglegram.gif">>)
  /\ (recorder.state = "recording") ~>
       (recorder = NoRecorder /\ ~stopTimeout /\ ~exportGifBtn /\ ~exportWebmBtn
          /\ downloads = <<"wigglegram.webm">>)
  /\ []((GifRunning \/ RecorderRunning) => downloads = <<>>)
  /\ [][(recorder.state = "recording" /\ recorder'.state # "recording") =>
          (stopTimeout /\ ~stopTimeout' /\ recorder'.state = "inactive")]_vars

\* a WebM export has ended: the file is downloaded, the buttons are enabled
C18_Witness ==
  /\ downloads = <<"wigglegram.webm">>
  /\ recorder = NoRecorder
  /\ ~exportGifBtn /\ ~exportWebmBtn

====
